---- MODULE Spec2Model ----
(***************************************************************************)
(* Model of the CMX-Stats build pipeline (src/src/build.py): main() runs   *)
(* load_data, calculate_stats and render_pages in sequence on two CSV      *)
(* files.  A CSV cell is its text, a tuple of character codes; a data      *)
(* frame is a record holding its rows and whether it has any column.       *)
(* An accented source name is written without the accent ("Victoria" for   *)
(* the result "Victòria", Posicio for the column "Posició").               *)
(***************************************************************************)
EXTENDS Integers, Sequences, FiniteSets, TLC

VARIABLES
    players_csv,   \* the players file: [ok, rows]; ok = FALSE when unreadable
    weeks_csv,     \* the weeks file:   [ok, rows]
    df_players,    \* load_data's players frame
    df_weeks,      \* load_data's weeks frame
    stats,         \* calculate_stats' result
    chart_data,    \* render_pages' chart series
    leaderboard,   \* render_pages' leaderboard
    pc             \* position of main(): start, loaded, stats, done, raised

vars == <<players_csv, weeks_csv, df_players, df_weeks, stats, chart_data,
          leaderboard, pc>>

\* Bounds of the model: rows per input table.
MaxMatches == 3
MaxPlayers == 3

(***************************************************************************)
(* Cell texts and typed values                                             *)
(***************************************************************************)
EmptyText == <<>>
\* "#DIV/0!", the null_values token of both read_csv calls
Div0Token == <<35, 68, 73, 86, 47, 48, 33>>

\* A typed value of a frame: null, an Int64 (v, with d = 1), a Float64 (the
\* fraction v / d; d = 0 is the IEEE result of a division by zero: inf for
\* v > 0, NaN for v = 0), or a String (s).
NullV == [k |-> "null", v |-> 0, d |-> 1, s |-> <<>>]
IntV(n) == [k |-> "int", v |-> n, d |-> 1, s |-> <<>>]
FloatV(n, m) == [k |-> "float", v |-> n, d |-> m, s |-> <<>>]
StrV(t) == [k |-> "str", v |-> 0, d |-> 1, s |-> t]

IsNaN(x) == x.k = "float" /\ x.d = 0 /\ x.v = 0
IsInf(x) == x.k = "float" /\ x.d = 0 /\ x.v > 0

\* x <= y for two non-null, non-NaN numbers of one column (v >= 0).
NumLE(x, y) == x.v * y.d <= y.v * x.d
NumLess(x, y) == ~NumLE(y, x)

IsDigits(t) == Len(t) > 0 /\ \A i \in 1..Len(t) : t[i] \in 48..57

RECURSIVE ParseInt(_)
ParseInt(t) ==
    IF t = <<>> THEN 0
    ELSE ParseInt(SubSeq(t, 1, Len(t) - 1)) * 10 + (t[Len(t)] - 48)

\* read_csv(null_values=["#DIV/0!"]): an empty cell and the token are null.
IsNullCell(t) == t = EmptyText \/ t = Div0Token

\* read_csv's schema inference on one column (every row of the table is
\* within infer_schema_length): Int64 when every non-null cell is an
\* integer literal, String otherwise, a column with no value included.  The
\* cells of the model are empty, the error token, integer literals, decimal
\* literals (float columns only) or letters.
InferDtype(cells) ==
    LET present == {i \in 1..Len(cells) : ~IsNullCell(cells[i])}
    IN  IF present # {} /\ \A i \in present : IsDigits(cells[i])
        THEN "Int64" ELSE "String"

ReadCell(t, dtype) ==
    IF IsNullCell(t) THEN NullV
    ELSE IF dtype = "Int64" THEN IntV(ParseInt(t))
    ELSE StrV(t)

\* Series.cast(pl.Int64, strict=False): a string that is no integer
\* literal becomes null.
CastInt64(x) ==
    IF x.k = "str" THEN (IF IsDigits(x.s) THEN IntV(ParseInt(x.s)) ELSE NullV)
    ELSE x

Column(rows, col) == [i \in 1..Len(rows) |-> rows[i][col]]

\* pl.DataFrame(): no column, no row.
EmptyFrame ==
    [has_cols |-> FALSE, jornada_dtype |-> "String", ml_dtype |-> "String",
     mv_dtype |-> "String", rows |-> <<>>]

(***************************************************************************)
(* load_data, weeks                                                        *)
(***************************************************************************)
\* pl.read_csv(CSV_WEEKS, ...): the dtypes of Jornada and of the two score
\* columns are inferred; Resultat and Posicio are strings ("" for a null
\* cell); vs is the opponent label.
ReadCsvWeeks(rows) ==
    LET dt == InferDtype(Column(rows, "Jornada"))
        ml == InferDtype(Column(rows, "ML"))
        mv == InferDtype(Column(rows, "MV"))
    IN  [has_cols |-> TRUE,
         jornada_dtype |-> dt,
         ml_dtype |-> ml,
         mv_dtype |-> mv,
         rows |-> [i \in 1..Len(rows) |->
                    [Jornada  |-> ReadCell(rows[i].Jornada, dt),
                     vs       |-> rows[i].vs,
                     Resultat |-> rows[i].Resultat,
                     Posicio  |-> rows[i].Posicio,
                     ML       |-> ReadCell(rows[i].ML, ml),
                     MV       |-> ReadCell(rows[i].MV, mv)]]]

JornadaNotNull(r) == r.Jornada.k # "null"

\* The weeks try block: read, keep the rows whose Jornada is not null; any
\* exception leaves an empty frame.  round_df changes no column (none is
\* Float64).
LoadWeeks(csv) ==
    IF ~csv.ok THEN EmptyFrame
    ELSE LET df == ReadCsvWeeks(csv.rows)
         IN  [df EXCEPT !.rows = SelectSeq(df.rows, JornadaNotNull)]

(***************************************************************************)
(* load_data, players                                                      *)
(***************************************************************************)
\* Position of the first "," of a text, 0 when it has none.
FirstComma(t) ==
    IF \E i \in 1..Len(t) : t[i] = 44
    THEN CHOOSE i \in 1..Len(t) : t[i] = 44 /\ \A j \in 1..(i - 1) : t[j] # 44
    ELSE 0

\* str.replace(",", "."): the first comma becomes a period.
ReplaceComma(t) ==
    LET i == FirstComma(t) IN IF i = 0 THEN t ELSE [t EXCEPT ![i] = 46]

RECURSIVE Pow10(_)
Pow10(n) == IF n = 0 THEN 1 ELSE 10 * Pow10(n - 1)

\* cast(pl.Float64, strict=False) of a string: digits, or digits "." digits,
\* parse to a number; anything else is null.
CastFloat64(x) ==
    IF x.k # "str" THEN x
    ELSE LET t == x.s
             dots == {i \in 1..Len(t) : t[i] = 46}
         IN  IF dots = {}
             THEN (IF IsDigits(t) THEN FloatV(ParseInt(t), 1) ELSE NullV)
             ELSE LET p == CHOOSE i \in dots : TRUE
                      ip == SubSeq(t, 1, p - 1)
                      fp == SubSeq(t, p + 1, Len(t))
                  IN  IF Cardinality(dots) = 1 /\ IsDigits(ip) /\ IsDigits(fp)
                      THEN FloatV(ParseInt(ip) * Pow10(Len(fp)) + ParseInt(fp),
                                  Pow10(Len(fp)))
                      ELSE NullV

\* pl.col(col).cast(pl.String).str.replace(",", ".").cast(pl.Float64,
\* strict=False) on a cell as read.
FloatColumn(t) ==
    IF IsNullCell(t) THEN NullV ELSE CastFloat64(StrV(ReplaceComma(t)))

(***************************************************************************)
(* Float64 arithmetic.  FloatV(v, d) with d > 0 is the double nearest to   *)
(* the fraction v / d (a parsed literal, a quotient of two integers); the  *)
(* operators below find on which side of the fraction that double lies,    *)
(* with remainders only, so that no number leaves the integers.            *)
(***************************************************************************)
RECURSIVE Pow2(_)
Pow2(n) == IF n = 0 THEN 1 ELSE 2 * Pow2(n - 1)

RECURSIVE Log2Floor(_, _)
\* The binary exponent e of v / d > 0: 2^e <= v / d < 2^(e + 1).
Log2Floor(v, d) ==
    IF v >= 2 * d THEN Log2Floor(v, 2 * d) + 1
    ELSE IF v < d THEN Log2Floor(2 * v, d) - 1
    ELSE 0

RECURSIVE ShiftMod(_, _, _)
\* (r * 2^j) mod d
ShiftMod(r, j, d) == IF j = 0 THEN r % d ELSE ShiftMod((2 * r) % d, j - 1, d)

\* What the 53-bit significand of v / d leaves out, in units of 1 / d of its
\* last place: 0 when v / d is a double.
MantissaRem(v, d) == ShiftMod(v % d, 52 - Log2Floor(v, d), d)

\* The side of v / d its double lies on (-1 below, 0 equal, 1 above), and
\* the distance between the two in the same units as MantissaRem.
DoubleSide(v, d) ==
    LET rem == MantissaRem(v, d)
    IN  IF rem = 0 THEN 0 ELSE IF 2 * rem < d THEN -1 ELSE 1

DoubleGap(v, d) ==
    LET rem == MantissaRem(v, d)
    IN  IF 2 * rem < d THEN rem ELSE d - rem

\* Whether 100 * v / d lies halfway between two integers.
IsHalfway(v, d) == (200 * v) % d = 0 /\ ((200 * v) \div d) % 2 = 1

\* The integer nearest to 100 * v / d, which is not halfway.
NearestHundredth(v, d) == (200 * v + d) \div (2 * d)

\* Whether the product x * 100.0, rounded to a double, is the halfway value
\* 100 * v / d itself: the error of x, times 100, is within half a unit in
\* the last place of the product.
ProductIsHalfway(v, d) ==
    100 * DoubleGap(v, d)
        <= d * Pow2(Log2Floor(100 * v, d) - Log2Floor(v, d) - 1)

\* Rounding to an integer in either mode of a value k + 1/2.
RoundHalf(k, mode) ==
    IF mode = "half_away_from_zero" \/ k % 2 = 1 THEN k + 1 ELSE k

\* What Expr.round(2) of round_df computes, by polars version: (x * 100.0).round()
\* / 100.0 (half away from zero), or the same with round_ties_even.
RoundModes == {"half_away_from_zero", "half_to_even"}

\* Expr.round(2) on a Float64 (finite, >= 0): the product x * 100.0 rounded
\* to an integer in the version's mode, over 100.0.
Round2(x, mode) ==
    IF x.k = "float" /\ x.d > 0
    THEN LET k == (100 * x.v) \div x.d
         IN  IF x.v = 0 THEN FloatV(0, 100)
             ELSE IF ~IsHalfway(x.v, x.d)
             THEN FloatV(NearestHundredth(x.v, x.d), 100)
             ELSE IF ProductIsHalfway(x.v, x.d) THEN FloatV(RoundHalf(k, mode), 100)
             ELSE IF DoubleSide(x.v, x.d) < 0 THEN FloatV(k, 100)
             ELSE FloatV(k + 1, 100)
    ELSE x

\* f"{val:.2f}" on a float: the double itself rounded to 2 decimals, a
\* double that is exactly halfway going to the even hundredth.
Format2(x) ==
    IF x.k = "float" /\ x.d > 0
    THEN LET k == (100 * x.v) \div x.d
             side == DoubleSide(x.v, x.d)
         IN  IF x.v = 0 THEN FloatV(0, 100)
             ELSE IF ~IsHalfway(x.v, x.d)
             THEN FloatV(NearestHundredth(x.v, x.d), 100)
             ELSE IF side = 0 THEN FloatV(RoundHalf(k, "half_to_even"), 100)
             ELSE IF side < 0 THEN FloatV(k, 100)
             ELSE FloatV(k + 1, 100)
    ELSE x

\* fill_null(0).cast(pl.Int64, strict=False) on Float64: null becomes 0, a
\* number is truncated.
FillNullCastInt(x) ==
    IF x.k = "null" THEN IntV(0) ELSE IntV(x.v \div x.d)

\* An integer column of the players file: read with its inferred dtype,
\* then cast(pl.Int64, strict=False).
IntColumn(rows, col, i) ==
    CastInt64(ReadCell(rows[i][col], InferDtype(Column(rows, col))))

JugadorNotNull(r) == r.Jugador.k # "null"
PartitsNotNull(r) == r.Partits.k # "null"

\* The players try block up to the Partits filter.
ReadPlayers(rows) ==
    LET typed == [i \in 1..Len(rows) |->
            [Jugador      |-> ReadCell(rows[i].Jugador, "String"),
             Partits      |-> IntColumn(rows, "Partits", i),
             Gols         |-> IntColumn(rows, "Gols", i),
             Assistencies |-> IntColumn(rows, "Assistencies", i),
             Grogues      |-> IntColumn(rows, "Grogues", i),
             Vermelles    |-> IntColumn(rows, "Vermelles", i),
             Win_Rate     |-> FloatColumn(rows[i].Win_Rate),
             Gols_x_partit |-> FloatColumn(rows[i].Gols_x_partit),
             Assitencies_x_partit |-> FloatColumn(rows[i].Assitencies_x_partit),
             Minuts_sense_gols |->
                 FillNullCastInt(FloatColumn(rows[i].Minuts_sense_gols))]]
    IN  SelectSeq(SelectSeq(typed, JugadorNotNull), PartitsNotNull)

\* round_df: every Float64 column rounded to 2 decimals.
round_df(rows, mode) ==
    [i \in 1..Len(rows) |->
        [rows[i] EXCEPT !.Win_Rate = Round2(@, mode),
                        !.Gols_x_partit = Round2(@, mode),
                        !.Assitencies_x_partit = Round2(@, mode)]]

LoadPlayers(csv, mode) ==
    IF ~csv.ok THEN EmptyFrame
    ELSE [EmptyFrame EXCEPT !.has_cols = TRUE,
                            !.rows = round_df(ReadPlayers(csv.rows), mode)]

(***************************************************************************)
(* calculate_stats                                                         *)
(***************************************************************************)
NoStats ==
    [total_matches |-> 0, total_wins |-> 0, total_draws |-> 0,
     total_losses |-> 0, total_goals_for |-> 0, total_goals_against |-> 0]

\* df.filter(pl.col("Resultat") == res).height
CountResult(rows, res) == Cardinality({i \in 1..Len(rows) : rows[i].Resultat = res})

\* row[col] if row[col] is not None else 0
OrZero(x) == IF x.k = "null" THEN 0 ELSE x.v

\* One iteration of the goals loop of calculate_stats: the match's
\* goals for and against.
StatsGoals(row) ==
    LET local_goals == OrZero(row.ML)
        visitor_goals == OrZero(row.MV)
    IN  IF row.Posicio = "Local" THEN <<local_goals, visitor_goals>>
        ELSE IF row.Posicio = "Visitant" THEN <<visitor_goals, local_goals>>
        ELSE <<0, 0>>

RECURSIVE SumGoals(_, _)
SumGoals(rows, k) ==
    IF rows = <<>> THEN 0 ELSE StatsGoals(Head(rows))[k] + SumGoals(Tail(rows), k)

\* calculate_stats raises where a column it names is missing (the frame of
\* a failed load has none) and where Series.sum() meets a score column that
\* is not numeric (line 92).
StatsRaises(df) ==
    ~df.has_cols \/ df.ml_dtype # "Int64" \/ df.mv_dtype # "Int64"

calculate_stats(df) ==
    [total_matches |-> Len(df.rows),
     total_wins    |-> CountResult(df.rows, "Victoria"),
     total_draws   |-> CountResult(df.rows, "Empat"),
     total_losses  |-> CountResult(df.rows, "Derrota"),
     total_goals_for     |-> SumGoals(df.rows, 1),
     total_goals_against |-> SumGoals(df.rows, 2)]

(***************************************************************************)
(* render_pages: chart series                                              *)
(***************************************************************************)
RECURSIVE LexLess(_, _)
\* String order: by character, a proper prefix first.
LexLess(s, t) ==
    IF t = <<>> THEN FALSE
    ELSE IF s = <<>> THEN TRUE
    ELSE IF Head(s) # Head(t) THEN Head(s) < Head(t)
    ELSE LexLess(Tail(s), Tail(t))

\* The order of a column's values: numbers by value, strings as strings.
KeyLess(x, y) == IF x.k = "str" THEN LexLess(x.s, y.s) ELSE NumLess(x, y)

Perms(n) == {p \in [1..n -> 1..n] : \A i, j \in 1..n : i # j => p[i] # p[j]}

\* df_weeks.sort("Jornada"): the rows in ascending order of the column; the
\* order of rows with equal keys is not specified (maintain_order=False).
SortByJornada(rows) ==
    {[i \in 1..Len(rows) |-> rows[p[i]]] : p \in
        {q \in Perms(Len(rows)) : \A i, j \in 1..Len(rows) :
            i < j => ~KeyLess(rows[q[j]].Jornada, rows[q[i]].Jornada)}}

\* Mutant of MatchPoints: the draw branch forgotten.
MatchPointsNoDraw(row) ==
    IF row.Resultat = "Victoria" THEN 3 ELSE 0

MatchPoints(row) ==
    IF row.Resultat = "Victoria" THEN 3
    ELSE IF row.Resultat = "Empat" THEN 1
    ELSE 0

\* Mutant of ChartGoals: the away branch copies the home branch.
ChartGoalsAwayAsHome(row) ==
    LET local_goals == OrZero(row.ML)
        visitor_goals == OrZero(row.MV)
    IN  IF row.Posicio = "Local" THEN <<local_goals, visitor_goals>>
        ELSE IF row.Posicio = "Visitant" THEN <<local_goals, visitor_goals>>
        ELSE <<0, 0>>

\* The goals part of one iteration of the chart loop: match_gf, match_ga.
ChartGoals(row) ==
    LET local_goals == OrZero(row.ML)
        visitor_goals == OrZero(row.MV)
    IN  IF row.Posicio = "Local" THEN <<local_goals, visitor_goals>>
        ELSE IF row.Posicio = "Visitant" THEN <<visitor_goals, local_goals>>
        ELSE <<0, 0>>

EmptyChart ==
    [labels |-> <<>>, points |-> <<>>, goals_for |-> <<>>,
     goals_against |-> <<>>, results |-> <<>>]

RECURSIVE ChartLoop(_, _, _, _, _)
\* The loop over df_sorted, carrying the running totals.
ChartLoop(rows, running_points, running_goals_for, running_goals_against, acc) ==
    IF rows = <<>> THEN acc
    ELSE LET row == Head(rows)
             rp == running_points + MatchPoints(row)
             gf == running_goals_for + ChartGoals(row)[1]
             ga == running_goals_against + ChartGoals(row)[2]
         IN  ChartLoop(Tail(rows), rp, gf, ga,
                 [labels        |-> Append(acc.labels, row.vs),
                  results       |-> Append(acc.results, row.Resultat),
                  points        |-> Append(acc.points, rp),
                  goals_for     |-> Append(acc.goals_for, gf),
                  goals_against |-> Append(acc.goals_against, ga)])

BuildChart(df_sorted) == ChartLoop(df_sorted, 0, 0, 0, EmptyChart)

(***************************************************************************)
(* render_pages: leaderboard                                               *)
(***************************************************************************)
Range(f) == {f[i] : i \in DOMAIN f}

NotNullIn(rows, col) == {r \in Range(rows) : r[col].k # "null"}

\* Mutant of TopRows: the sort ascending (descending=True forgotten).
TopRowsAscending(rows, col) ==
    {r \in NotNullIn(rows, col) : \A q \in NotNullIn(rows, col) : NumLE(r[col], q[col])}

\* valid_df.sort(col, descending=True).row(0): a row holding the greatest
\* value of the column; which one of several is not specified.
TopRows(rows, col) ==
    {r \in NotNullIn(rows, col) : \A q \in NotNullIn(rows, col) : NumLE(q[col], r[col])}

\* get_top_player: the entries it may return; none when it returns None.
\* value is the number behind the formatted string.
get_top_player(rows, col, label) ==
    {[name |-> r.Jugador.s, value |-> r[col], label |-> label] :
        r \in TopRows(rows, col)}

\* f"{val * 100:.2f}%": val is a Win Rate in hundredths (round_df), the
\* product is within a unit in the last place of the whole number x.v and
\* shows as that number.
Percent(x) == Format2(FloatV(100 * x.v, x.d))

\* Metric 6, written out in render_pages.
TopWinRate(rows) ==
    {[name |-> r.Jugador.s, value |-> Percent(r.Win_Rate),
      label |-> "Major % Victoria"] : r \in TopRows(rows, "Win_Rate")}

\* pl.col("Grogues") / pl.col("Partits"): true division of two Int64, null
\* when either is null; x / 0 is inf for x > 0 and NaN for x = 0.
Divide(x, y) ==
    IF x.k = "null" \/ y.k = "null" THEN NullV ELSE FloatV(x.v, y.v)

\* Expr.fill_nan(0)
FillNan0(x) == IF IsNaN(x) THEN FloatV(0, 1) ELSE x

\* The Grogues_Ratio expression of render_pages.
YellowRatio(grogues, partits) == FillNan0(Divide(grogues, partits))

WithYellowRatio(rows) ==
    [i \in 1..Len(rows) |->
        [c \in DOMAIN rows[i] \cup {"Grogues_Ratio"} |->
            IF c = "Grogues_Ratio"
            THEN YellowRatio(rows[i].Grogues, rows[i].Partits)
            ELSE rows[i][c]]]

\* Metric 7: kept when float(value) > 0, the value then shown with 2
\* decimals.
TopYellow(rows) ==
    {[e EXCEPT !.value = Format2(@)] :
        e \in {t \in get_top_player(WithYellowRatio(rows), "Grogues_Ratio",
                                    "Major % Grogues/Partit") : t.value.v > 0}}

\* Metric 8: kept when int(value) > 0.
TopRed(rows) ==
    {t \in get_top_player(rows, "Vermelles", "Mes Targetes Vermelles") :
        t.value.v > 0}

\* if top: leaderboard.append(top)
Appended(S) == IF S = {} THEN {<<>>} ELSE {<<e>> : e \in S}

\* The leaderboards render_pages may build from the players frame.
Leaderboards(rows) ==
    {a \o b \o c \o d \o e \o f \o g \o h :
        a \in Appended(get_top_player(rows, "Gols", "Maxim Golejador")),
        b \in Appended(get_top_player(rows, "Gols_x_partit", "Gols / Partit")),
        c \in Appended(get_top_player(rows, "Assistencies", "Maxim Assistent")),
        d \in Appended(get_top_player(rows, "Assitencies_x_partit", "Ass. / Partit")),
        e \in Appended(get_top_player(rows, "Minuts_sense_gols",
                                      "Millor Porter (Minuts imbatut)")),
        f \in Appended(TopWinRate(rows)),
        g \in Appended(TopYellow(rows)),
        h \in Appended(TopRed(rows))}

\* render_pages raises at its first use of a players column when the
\* frame of a failed load has none (line 149).
RenderRaises(df) == ~df.has_cols

(***************************************************************************)
(* Input files                                                             *)
(***************************************************************************)
Unreadable == [ok |-> FALSE, rows |-> <<>>]

Txt2 == <<50>>
Txt10 == <<49, 48>>
TxtX == <<120>>

\* Jornada cells: nothing, garbage, "2", "10".
JornadaCells == {EmptyText, TxtX, Txt2, Txt10}

\* Result, side and score cells of a match row.
MatchProfiles ==
    {[Resultat |-> "Victoria", Posicio |-> "Visitant", ML |-> <<49>>, MV |-> <<51>>],
     [Resultat |-> "Empat",    Posicio |-> "Local",    ML |-> <<49>>, MV |-> <<49>>],
     [Resultat |-> "Derrota",  Posicio |-> "Local",    ML |-> EmptyText, MV |-> <<50>>],
     [Resultat |-> "",         Posicio |-> "Neutral",  ML |-> <<50>>, MV |-> EmptyText]}

MatchRow(i, j, p) ==
    [Jornada |-> j, vs |-> i, Resultat |-> p.Resultat, Posicio |-> p.Posicio,
     ML |-> p.ML, MV |-> p.MV]

\* csv is a weeks file: unreadable, or a table of up to MaxMatches rows, the
\* opponent label of a row its position, the fixture index the identity of
\* a match (no two rows with the same one).
WeeksFile(csv) ==
    \/ csv = Unreadable
    \/ \E n \in 0..MaxMatches :
          \E js \in [1..n -> JornadaCells], ps \in [1..n -> MatchProfiles] :
              /\ \A a, b \in 1..n : (a # b /\ ~IsNullCell(js[a])) => js[a] # js[b]
              /\ csv = [ok |-> TRUE,
                        rows |-> [i \in 1..n |-> MatchRow(i, js[i], ps[i])]]

PlayerName(i) == <<64 + i>>

\* A player row whose cells all parse, each value the row's own.
BasePlayer(i) ==
    [Jugador |-> PlayerName(i), Partits |-> <<52>>, Gols |-> <<48 + i>>,
     Gols_x_partit |-> <<48, 44, 48 + i>>, Assistencies |-> <<48 + i>>,
     Assitencies_x_partit |-> <<48, 46, 48 + i>>,
     Minuts_sense_gols |-> <<48 + i, 48>>,
     Win_Rate |-> <<48, 44, 48 + i, 53>>, Grogues |-> <<48 + i>>,
     Vermelles |-> <<48 + i>>]

\* The cells a players table varies, by group of columns.
PlayerSlices ==
    {[Partits : {Div0Token, TxtX, <<52>>}, Gols : {TxtX, <<53>>}],
     [Jugador : {EmptyText, <<74>>}, Partits : {EmptyText, <<52>>}],
     [Gols : {EmptyText, <<53>>, <<57>>},
      Gols_x_partit : {Div0Token, <<48, 44, 53>>, <<49, 46, 54, 54, 55>>}],
     [Assistencies : {EmptyText, <<48>>, <<51>>},
      Assitencies_x_partit : {EmptyText, <<48, 44, 49, 50, 53>>, <<49, 44, 48, 48, 53>>}],
     [Minuts_sense_gols : {EmptyText, <<57, 48>>, <<52, 53, 44, 53>>},
      Win_Rate : {EmptyText, <<48, 44, 55, 53>>, <<49>>}],
     [Partits : {<<48>>, <<56>>},
      Grogues : {EmptyText, <<48>>, <<49>>, <<53>>}],
     [Vermelles : {EmptyText, <<48>>, <<49>>, <<50>>}]}

\* Row i of a players table: the base row with the cells of patch; a name
\* cell that is not empty is the row's own name.
PlayerRow(i, patch) ==
    [c \in DOMAIN BasePlayer(i) |->
        IF c \in DOMAIN patch /\ (c # "Jugador" \/ patch[c] = EmptyText)
        THEN patch[c]
        ELSE BasePlayer(i)[c]]

\* csv is a players file: unreadable, or a table of up to MaxPlayers rows
\* drawn from one group.
PlayersFile(csv) ==
    \/ csv = Unreadable
    \/ \E n \in 0..MaxPlayers, slice \in PlayerSlices :
          \E ps \in [1..n -> slice] :
              csv = [ok |-> TRUE, rows |-> [i \in 1..n |-> PlayerRow(i, ps[i])]]

\* The spec's two-match scenario, Jornada 2 before Jornada 1.
FixedWeeks ==
    [ok |-> TRUE,
     rows |-> <<[Jornada |-> <<50>>, vs |-> 1, Resultat |-> "Victoria",
                 Posicio |-> "Visitant", ML |-> <<49>>, MV |-> <<51>>],
                [Jornada |-> <<49>>, vs |-> 2, Resultat |-> "Empat",
                 Posicio |-> "Local", ML |-> <<49>>, MV |-> <<49>>]>>]

FixedPlayers == [ok |-> TRUE, rows |-> <<BasePlayer(1)>>]

(***************************************************************************)
(* main                                                                    *)
(***************************************************************************)
Init ==
    /\ \/ WeeksFile(weeks_csv) /\ players_csv = FixedPlayers
       \/ PlayersFile(players_csv) /\ weeks_csv = FixedWeeks
       \/ players_csv = Unreadable /\ weeks_csv = Unreadable
    /\ df_players = EmptyFrame
    /\ df_weeks = EmptyFrame
    /\ stats = NoStats
    /\ chart_data = EmptyChart
    /\ leaderboard = <<>>
    /\ pc = "start"

\* df_players, df_weeks = load_data()
LoadData ==
    /\ pc = "start"
    /\ \E mode \in RoundModes : df_players' = LoadPlayers(players_csv, mode)
    /\ df_weeks' = LoadWeeks(weeks_csv)
    /\ pc' = "loaded"
    /\ UNCHANGED <<players_csv, weeks_csv, stats, chart_data, leaderboard>>

\* stats = calculate_stats(df_weeks)
CalculateStats ==
    /\ pc = "loaded"
    /\ IF StatsRaises(df_weeks)
       THEN pc' = "raised" /\ UNCHANGED stats
       ELSE pc' = "stats" /\ stats' = calculate_stats(df_weeks)
    /\ UNCHANGED <<players_csv, weeks_csv, df_players, df_weeks, chart_data,
                   leaderboard>>

\* render_pages(df_players, df_weeks, stats)
RenderPages ==
    /\ pc = "stats"
    /\ IF RenderRaises(df_players)
       THEN pc' = "raised" /\ UNCHANGED <<chart_data, leaderboard>>
       ELSE /\ pc' = "done"
            /\ \E df_sorted \in SortByJornada(df_weeks.rows) :
                  chart_data' = BuildChart(df_sorted)
            /\ leaderboard' \in Leaderboards(df_players.rows)
    /\ UNCHANGED <<players_csv, weeks_csv, df_players, df_weeks, stats>>

Next == LoadData \/ CalculateStats \/ RenderPages

Spec == Init /\ [][Next]_vars

(***************************************************************************)
(* Properties                                                              *)
(***************************************************************************)
Last(q) == q[Len(q)]
Prev(q, i) == IF i = 1 THEN 0 ELSE q[i - 1]

\* The retained match behind a chart label, the retained player behind a
\* leaderboard name.
MatchOf(label) == CHOOSE r \in Range(df_weeks.rows) : r.vs = label
PlayerOf(name) == CHOOSE r \in Range(df_players.rows) : r.Jugador.s = name

\* The fixture index a Jornada value denotes, when it denotes one.
HasFixtureIndex(x) == x.k = "int" \/ (x.k = "str" /\ IsDigits(x.s))
FixtureIndex(x) == IF x.k = "int" THEN x.v ELSE ParseInt(x.s)

\* C1: a table whose load fails as a whole gives an empty record set and the
\* rest of the pipeline still runs to completion without raising, with
\* all-zero stats, an empty series and an empty leaderboard.
C1_LoadFailureNotFatal ==
    /\ (~weeks_csv.ok /\ pc # "start") =>
           /\ df_weeks.rows = <<>>
           /\ pc # "raised"
           /\ pc \in {"stats", "done"} => stats = NoStats
           /\ pc = "done" => chart_data = EmptyChart
    /\ (~players_csv.ok /\ pc # "start") =>
           /\ df_players.rows = <<>>
           /\ pc # "raised"
           /\ pc = "done" => leaderboard = <<>>

\* C2: the cumulative series has one point per retained match and its
\* points come in strictly ascending fixture-index order.
C2_SeriesInFixtureOrder ==
    pc = "done" =>
        /\ Len(chart_data.labels) = Len(df_weeks.rows)
        /\ Len(chart_data.points) = Len(df_weeks.rows)
        /\ Len(chart_data.results) = Len(df_weeks.rows)
        /\ \A i, j \in 1..Len(chart_data.labels) :
              (/\ i < j
               /\ HasFixtureIndex(MatchOf(chart_data.labels[i]).Jornada)
               /\ HasFixtureIndex(MatchOf(chart_data.labels[j]).Jornada))
              => FixtureIndex(MatchOf(chart_data.labels[i]).Jornada)
                   < FixtureIndex(MatchOf(chart_data.labels[j]).Jornada)

\* C3: the last point of the cumulative series carries the season's goals
\* for and against of calculate_stats, whatever the order of the rows.
C3_LastPointIsSeasonTotal ==
    (pc = "done" /\ Len(chart_data.labels) > 0) =>
        /\ Last(chart_data.goals_for) = stats.total_goals_for
        /\ Last(chart_data.goals_against) = stats.total_goals_against

\* C3 witness: a finished run whose rows arrived out of fixture order, with
\* a null score and a side that is neither Local nor Visitant, and goals on
\* both sides.
C3_Witness ==
    /\ pc = "done"
    /\ Len(chart_data.labels) >= 2
    /\ chart_data.labels[1] > chart_data.labels[2]
    /\ \E r \in Range(df_weeks.rows) : r.ML.k = "null" /\ r.Posicio = "Local"
    /\ \E r \in Range(df_weeks.rows) : r.Posicio = "Neutral"
    /\ \E r \in Range(df_weeks.rows) : r.Posicio = "Visitant"
    /\ stats.total_goals_for > 0
    /\ stats.total_goals_against > 0

\* C4: wins + draws + losses is the number of retained match rows,
\* whatever the result cells of those rows hold.
C4_ResultsSumToMatches ==
    pc \in {"stats", "done"} =>
        stats.total_wins + stats.total_draws + stats.total_losses
            = stats.total_matches

\* C5: the yellow-cards-per-match ratio is 0 whenever matches played is 0,
\* whatever the yellow-card count, is yellow cards / matches played
\* otherwise, and no non-finite value reaches the leaderboard.
C5_YellowRatioZeroWithoutMatches ==
    pc = "done" =>
        /\ \A r \in Range(df_players.rows) :
              r.Grogues.k # "null" =>
                  LET ratio == YellowRatio(r.Grogues, r.Partits)
                  IN  IF r.Partits.v = 0
                      THEN ratio = FloatV(0, 1)
                      ELSE /\ ratio.d > 0
                           /\ ratio.v * r.Partits.v = r.Grogues.v * ratio.d
        /\ \A i \in 1..Len(leaderboard) :
              ~IsInf(leaderboard[i].value) /\ ~IsNaN(leaderboard[i].value)

\* The column behind each maximum-value metric's label.
MaxMetricColumn ==
    [x \in {"Maxim Golejador", "Gols / Partit", "Maxim Assistent", "Ass. / Partit",
            "Millor Porter (Minuts imbatut)", "Major % Victoria"} |->
        CASE x = "Maxim Golejador" -> "Gols"
          [] x = "Gols / Partit" -> "Gols_x_partit"
          [] x = "Maxim Assistent" -> "Assistencies"
          [] x = "Ass. / Partit" -> "Assitencies_x_partit"
          [] x = "Millor Porter (Minuts imbatut)" -> "Minuts_sense_gols"
          [] x = "Major % Victoria" -> "Win_Rate"]

\* C6: the entry of a maximum-value metric names a player whose value for
\* the metric is not null and is at least every other non-null value.
C6_TopPlayerHoldsMaximum ==
    pc = "done" =>
        \A i \in 1..Len(leaderboard) :
            leaderboard[i].label \in DOMAIN MaxMetricColumn =>
                LET col == MaxMetricColumn[leaderboard[i].label]
                    top == PlayerOf(leaderboard[i].name)
                IN  /\ top[col].k # "null"
                    /\ \A q \in Range(df_players.rows) :
                          q[col].k # "null" => NumLE(q[col], top[col])

\* C6 witness: three players with distinct goals-per-match values, one of
\* them null and one below the maximum; the entry names the maximum's holder.
C6_Witness ==
    /\ pc = "done"
    /\ Len(df_players.rows) = 3
    /\ \E r \in Range(df_players.rows) : r.Gols.k = "null"
    /\ \E r \in Range(df_players.rows) : r.Gols = IntV(5)
    /\ \E i \in 1..Len(leaderboard) :
          /\ leaderboard[i].label = "Maxim Golejador"
          /\ leaderboard[i].value = IntV(9)
    /\ \E i \in 1..Len(leaderboard) :
          /\ leaderboard[i].label = "Gols / Partit"
          /\ leaderboard[i].value = FloatV(167, 100)
    /\ \E r \in Range(df_players.rows) : r.Gols_x_partit = FloatV(50, 100)

\* The fixed priority order of the leaderboard, by label.
MetricLabels ==
    <<"Maxim Golejador", "Gols / Partit", "Maxim Assistent", "Ass. / Partit",
      "Millor Porter (Minuts imbatut)", "Major % Victoria",
      "Major % Grogues/Partit", "Mes Targetes Vermelles">>

\* The yellow-card ratio as C5 states it: 0 when matches played is 0 or the
\* ratio is undefined, yellow cards / matches played otherwise.
StatedYellowRatio(r) ==
    IF r.Grogues.k = "null" \/ r.Partits.k = "null" \/ r.Partits.v = 0
    THEN FloatV(0, 1)
    ELSE FloatV(r.Grogues.v, r.Partits.v)

\* Whether a metric has an eligible player in the players frame.
HasEligible(label) ==
    IF label \in DOMAIN MaxMetricColumn
    THEN \E r \in Range(df_players.rows) : r[MaxMetricColumn[label]].k # "null"
    ELSE IF label = "Major % Grogues/Partit"
    THEN \E r \in Range(df_players.rows) : StatedYellowRatio(r).v > 0
    ELSE \E r \in Range(df_players.rows) :
            r.Vermelles.k # "null" /\ r.Vermelles.v >= 1

\* C7: the leaderboard is the sub-sequence of the fixed metric order made of
\* the metrics that have an eligible player: one entry per such metric, in
\* priority order, at most 8.
C7_LeaderboardIsEligibleMetrics ==
    pc = "done" =>
        /\ Len(leaderboard) <= 8
        /\ [i \in 1..Len(leaderboard) |-> leaderboard[i].label]
             = SelectSeq(MetricLabels, HasEligible)

\* C8: along the series the running points, goals for and goals against
\* never decrease, and the points step is 3 for a win, 1 for a draw and 0
\* for any other result.
C8_RunningTotalsMonotonic ==
    pc = "done" =>
        \A i \in 1..Len(chart_data.points) :
            /\ chart_data.points[i] - Prev(chart_data.points, i)
                 = (IF chart_data.results[i] = "Victoria" THEN 3
                    ELSE IF chart_data.results[i] = "Empat" THEN 1 ELSE 0)
            /\ chart_data.goals_for[i] >= Prev(chart_data.goals_for, i)
            /\ chart_data.goals_against[i] >= Prev(chart_data.goals_against, i)

\* C8 witness: a three-point series built from rows that arrived out of
\* fixture order, holding a win, a draw and another result, whose totals
\* grow.
C8_Witness ==
    /\ pc = "done"
    /\ Len(chart_data.points) = 3
    /\ chart_data.labels[1] > chart_data.labels[3]
    /\ {"Victoria", "Empat", "Derrota"} \subseteq Range(chart_data.results)
    /\ chart_data.points[3] = 4
    /\ chart_data.goals_for[1] < chart_data.goals_for[3]
    /\ chart_data.goals_against[1] < chart_data.goals_against[3]

\* C9: in both tables the validity filter runs after the numeric coercion
\* of the discriminator: the retained rows are exactly those whose
\* discriminator parsed to a number, and a failed coercion of another cell
\* leaves its row retained with that cell null.
C9_FilterAfterCoercion ==
    pc # "start" =>
        /\ players_csv.ok =>
              /\ {r.Jugador.s : r \in Range(df_players.rows)}
                   = {r.Jugador : r \in {x \in Range(players_csv.rows) :
                          ~IsNullCell(x.Jugador) /\ IsDigits(x.Partits)}}
              /\ \A r \in Range(df_players.rows) : r.Partits.k = "int"
              /\ \A x \in Range(players_csv.rows) :
                    \A r \in Range(df_players.rows) :
                        (r.Jugador.s = x.Jugador /\ ~IsDigits(x.Gols))
                            => r.Gols.k = "null"
        /\ weeks_csv.ok =>
              /\ {r.vs : r \in Range(df_weeks.rows)}
                   = {x.vs : x \in {y \in Range(weeks_csv.rows) :
                          IsDigits(y.Jornada)}}
              /\ \A r \in Range(df_weeks.rows) : r.Jornada.k = "int"

\* C10: the selection among players sharing a metric's maximum is
\* deterministic: the leaderboard built is the only one the selector can
\* build from the players frame.
C10_SelectionDeterministic ==
    pc = "done" => Leaderboards(df_players.rows) = {leaderboard}

====
